---- MODULE Spec2Model ----
(***************************************************************************)
(* Rate caching and conversion engine of the currency converter            *)
(* (src/config/converter.py, class CurrencyConverter).                     *)
(*                                                                         *)
(* The persisted cache directory is a map from cache key to file content.  *)
(* Calls are coroutines on one asyncio loop: code between two awaits runs  *)
(* atomically, and the only suspension point of the class is the await of  *)
(* api_client.get_rates (line 52).  A call is therefore one step when it   *)
(* never reaches line 52, and two steps (begin, resume) when it does.      *)
(* pending is the bag of the calls suspended at line 52: which caller      *)
(* holds which of them makes no difference to the class.                   *)
(*                                                                         *)
(* Numbers: a float is an exact rational <<n, d>> in lowest terms, d > 0;  *)
(* IEEE rounding of a product is not represented.  A datetime is a count   *)
(* of clock ticks, TicksPerSec ticks to the second.                        *)
(***************************************************************************)
EXTENDS Integers, Sequences, FiniteSets, Bags, TLC

VARIABLES cache, now, cache_timeout, self_rates, pending, ret

vars == <<cache, now, cache_timeout, self_rates, pending, ret>>

(* ------------------------------ bounds --------------------------------- *)
\* The clock runs from 0 to MaxTime ticks.
MaxTime == 2
\* Clock resolution: ticks per second (the fractional part of a timestamp).
TicksPerSec == 2
TicksPerDay == 2 * TicksPerSec
\* Callers: as many coroutines may be suspended at once.
Procs == {"p1", "p2"}
\* Values of api_client.cache_timeout (seconds), int(config['API']['cache_timeout']).
CacheTimeouts == {0, 1}

(* ----------------------------- results --------------------------------- *)
Ok(v) == [kind |-> "ok", value |-> v]
Raise(exc, msg) == [kind |-> "raise", exc |-> exc, msg |-> msg]
None == [kind |-> "none"]

(* ------------------------------ strings -------------------------------- *)
\* str.upper() on the currency codes the model feeds in.
UpperTable ==
    [c \in {"USD", "usd", "EUR", "eur", "GBP"} |->
        CASE c = "usd" -> "USD"
          [] c = "eur" -> "EUR"
          [] OTHER -> c]

Upper(c) == UpperTable[c]

CurrencyInputs == DOMAIN UpperTable

\* Base currencies handed to get_exchange_rates directly.
BaseInputs == {"usd", "EUR"}

(* ------------------------------ floats --------------------------------- *)
RECURSIVE GCD(_, _)
GCD(a, b) == IF b = 0 THEN a ELSE GCD(b, a % b)

Abs(n) == IF n < 0 THEN -n ELSE n

Norm(q) ==
    LET g == GCD(Abs(q[1]), q[2])
    IN  <<q[1] \div g, q[2] \div g>>

Mul(a, b) == Norm(<<a[1] * b[1], a[2] * b[2]>>)

RECURSIVE Pow10(_)
Pow10(k) == IF k = 0 THEN 1 ELSE 10 * Pow10(k - 1)

DigitVal == [c \in {"0", "1", "2", "5"} |-> CASE c = "0" -> 0 [] c = "1" -> 1
                                              [] c = "2" -> 2 [] c = "5" -> 5]

RECURSIVE LStrip(_)
LStrip(s) == IF s # <<>> /\ Head(s) = " " THEN LStrip(Tail(s)) ELSE s

RECURSIVE RStrip(_)
RStrip(s) == IF s # <<>> /\ s[Len(s)] = " " THEN RStrip(SubSeq(s, 1, Len(s) - 1)) ELSE s

RECURSIVE DigitsToInt(_)
DigitsToInt(ds) ==
    IF ds = <<>> THEN 0
    ELSE 10 * DigitsToInt(SubSeq(ds, 1, Len(ds) - 1)) + DigitVal[ds[Len(ds)]]

IsDigit(c) == c \in DOMAIN DigitVal

\* float(str) on the characters of the model's alphabet (digits, '.', '-',
\* '+', ' ', letters): surrounding whitespace is stripped, one optional sign,
\* then digits with at most one '.', at least one digit.  The result is
\* Ok(the float), or the ValueError raised.
ParseFloat(s) ==
    LET t    == RStrip(LStrip(s))
        neg  == t # <<>> /\ Head(t) = "-"
        sgn  == t # <<>> /\ Head(t) \in {"-", "+"}
        u    == IF sgn THEN Tail(t) ELSE t
        dots == {i \in 1..Len(u) : u[i] = "."}
        ds   == SelectSeq(u, IsDigit)
        ok   == /\ Cardinality(dots) <= 1
                /\ \A i \in (1..Len(u)) \ dots : IsDigit(u[i])
                /\ ds # <<>>
        k    == IF dots = {} THEN 0 ELSE Len(u) - (CHOOSE i \in dots : TRUE)
        m    == DigitsToInt(ds)
    IN  IF ok THEN Ok(Norm(<<IF neg THEN -m ELSE m, Pow10(k)>>))
        ELSE Raise("ValueError", "could not convert string to float")

\* An amount argument is a float or a str (Union[float, str]).
FloatArg(q) == [t |-> "float", float |-> q]
StrArg(s) == [t |-> "str", str |-> s]

\* float(amount), line 68.
ToFloat(amount) ==
    IF amount.t = "float" THEN Ok(amount.float) ELSE ParseFloat(amount.str)

(* ----------------------------- datetimes ------------------------------- *)
\* IsoFormat cut to whole seconds: the fraction is never written.
IsoFormat_seconds(t) == <<t \div TicksPerSec>>

\* datetime.isoformat(): the seconds, and the fraction only when it is not 0.
IsoFormat(t) ==
    IF t % TicksPerSec = 0 THEN <<t \div TicksPerSec>>
    ELSE <<t \div TicksPerSec, t % TicksPerSec>>

\* datetime.fromisoformat().
FromIsoFormat(s) == s[1] * TicksPerSec + (IF Len(s) > 1 THEN s[2] ELSE 0)

\* str(datetime.now().date()): the calendar day of a timestamp.
DateStr(t) == <<"day", t \div TicksPerDay>>

(* --------------------------- file contents ----------------------------- *)
NoFile == [kind |-> "nofile"]
\* A file that exists and that open/json.load/data['expires_at'] rejects: a
\* truncated or partial record.
Corrupt == [kind |-> "corrupt"]
\* A file holding the JSON text of dict d.
File(d) == [kind |-> "json", data |-> d]

(* --------------------------- rate provider ----------------------------- *)
\* api_client.get_rates(base): a structure with base, rates and optionally
\* date, or an error.  Nothing ties the base of the structure to the base
\* asked for, and the rates may or may not list the base itself.
ProviderResponses(base) ==
    CASE base = "USD" ->
           { [base |-> "USD", rates |-> [EUR |-> <<23, 25>>, GBP |-> <<79, 100>>],
              date |-> DateStr(0)],
             [base |-> "USD", rates |-> [EUR |-> <<93, 100>>, USD |-> <<1, 1>>]] }
      [] base = "EUR" ->
           { [base |-> "EUR", rates |-> [USD |-> <<27, 25>>], date |-> DateStr(0)],
             \* a provider that ignores the requested base and answers for its own
             [base |-> "USD", rates |-> [EUR |-> <<23, 25>>], date |-> DateStr(0)] }
      [] OTHER -> {}

ProviderErrors == {"timeout"}

\* What the disk does on open(cache_file, 'w') / json.dump: the write
\* completes, open fails (file untouched), or the write fails after open
\* truncated the file.
DiskOutcomes == {"ok", "open_failed", "write_failed"}

(* ------------------------ CurrencyConverter ---------------------------- *)
\* The cache key of a base currency: the file {BASE}_rates.json.
get_cache_file(base_currency) == Upper(base_currency)

CacheKeys == {get_cache_file(c) : c \in CurrencyInputs}

\* IsFresh with <= in place of <: an entry still served at its expiry instant.
IsFresh_inclusive(data, t) == t <= FromIsoFormat(data.expires_at)

\* Line 25: datetime.now() < datetime.fromisoformat(data['expires_at']).
IsFresh(data, t) == t < FromIsoFormat(data.expires_at)

\* _load_cached_rates at clock t on directory c: Ok(data), None, or the
\* exception that open/json.load/data['expires_at'] raises (nothing in the
\* method catches it).
load_cached_rates(c, base_currency, t) ==
    LET f == c[get_cache_file(base_currency)]
    IN  IF f.kind = "nofile" THEN None
        ELSE IF f.kind = "corrupt"
             THEN Raise("JSONDecodeError", "Expecting value")
        ELSE IF IsFresh(f.data, t) THEN Ok(f.data)
        ELSE None

\* CacheData that takes the base currency's own code out of the rates.
CacheData_without_base(rates, expires_at, t) ==
    [base       |-> rates.base,
     rates      |-> [c \in DOMAIN rates.rates \ {rates.base} |-> rates.rates[c]],
     date       |-> IF "date" \in DOMAIN rates THEN rates.date ELSE DateStr(t),
     expires_at |-> IsoFormat(expires_at)]

\* Lines 31-36: the record written for a provider response.
CacheData(rates, expires_at, t) ==
    [base       |-> rates.base,
     rates      |-> rates.rates,
     date       |-> IF "date" \in DOMAIN rates THEN rates.date ELSE DateStr(t),
     expires_at |-> IsoFormat(expires_at)]

\* save_rates_to_cache that leaves an unexpired entry in place instead of
\* replacing it (first writer wins).
save_rates_to_cache_keep_fresh(c, base_currency, rates, expires_at, t, disk) ==
    LET k == get_cache_file(base_currency)
        keep == c[k].kind = "json" /\ IsFresh(c[k].data, t)
    IN  CASE disk = "ok" ->
               [cache  |-> IF keep THEN c
                           ELSE [c EXCEPT ![k] = File(CacheData(rates, expires_at, t))],
                raised |-> None]
          [] disk = "open_failed" ->
               [cache |-> c, raised |-> Raise("OSError", "Permission denied")]
          [] disk = "write_failed" ->
               [cache  |-> [c EXCEPT ![k] = Corrupt],
                raised |-> Raise("OSError", "No space left on device")]

\* _save_rates_to_cache at clock t with the disk behaving as `disk`: the
\* directory afterwards and the exception raised, if any.
save_rates_to_cache(c, base_currency, rates, expires_at, t, disk) ==
    LET k == get_cache_file(base_currency)
    IN  CASE disk = "ok" ->
               [cache  |-> [c EXCEPT ![k] = File(CacheData(rates, expires_at, t))],
                raised |-> None]
          [] disk = "open_failed" ->
               [cache |-> c, raised |-> Raise("OSError", "Permission denied")]
          [] disk = "write_failed" ->
               [cache  |-> [c EXCEPT ![k] = Corrupt],
                raised |-> Raise("OSError", "No space left on device")]

\* APIError without str(e): the cause is dropped from the message.
APIError_no_cause(e) == Raise("APIError", <<"Could not fetch exchange rates">>)

\* Line 58: the error get_exchange_rates raises for exception e.
APIError(e) == Raise("APIError", <<"Could not fetch exchange rates", e.msg>>)

\* get_exchange_rates_begin that deletes the file of an expired entry when
\* the load meets it.
get_exchange_rates_begin_evicting(c, base_currency, t) ==
    LET cached_data == load_cached_rates(c, Upper(base_currency), t)
        k == get_cache_file(Upper(base_currency))
    IN  CASE cached_data.kind = "raise" ->
               [step |-> "raise", res |-> cached_data, cache |-> c]
          [] cached_data.kind = "ok" ->
               [step |-> "return", res |-> cached_data, cache |-> c]
          [] OTHER ->
               [step |-> "await", res |-> None, cache |-> [c EXCEPT ![k] = NoFile]]

\* get_exchange_rates up to its await (lines 41-52): "return" with the cached
\* data, "raise" what the load raised, or "await" the provider.  cache is the
\* directory afterwards: lines 20-27 and 41-47 only read it.
get_exchange_rates_begin(c, base_currency, t) ==
    LET cached_data == load_cached_rates(c, Upper(base_currency), t)
    IN  CASE cached_data.kind = "raise" ->
               [step |-> "raise", res |-> cached_data, cache |-> c]
          [] cached_data.kind = "ok" ->
               [step |-> "return", res |-> cached_data, cache |-> c]
          [] OTHER ->
               [step |-> "await", res |-> None, cache |-> c]

\* get_exchange_rates_resume without the call of line 54: the fetched rates
\* are returned and never written.
get_exchange_rates_resume_unsaved(c, base_currency, t, timeout, reply, disk) ==
    IF reply.kind = "raise"
    THEN [res |-> APIError(reply), cache |-> c, writes |-> 0]
    ELSE [res |-> Ok(reply.value), cache |-> c, writes |-> 0]

\* get_exchange_rates_resume that removes the entry of the base when the
\* fetch fails.
get_exchange_rates_resume_dropping(c, base_currency, t, timeout, reply, disk) ==
    IF reply.kind = "raise"
    THEN [res |-> APIError(reply),
          cache |-> [c EXCEPT ![get_cache_file(Upper(base_currency))] = NoFile],
          writes |-> 0]
    ELSE LET expires_at == t + timeout * TicksPerSec
             s == save_rates_to_cache(c, Upper(base_currency), reply.value,
                                      expires_at, t, disk)
         IN  IF s.raised.kind = "raise"
             THEN [res |-> APIError(s.raised), cache |-> s.cache, writes |-> 1]
             ELSE [res |-> Ok(reply.value), cache |-> s.cache, writes |-> 1]

\* get_exchange_rates_resume that computes expires_at from the fraction of
\* the current second instead of the whole clock value.
get_exchange_rates_resume_time_of_day(c, base_currency, t, timeout, reply, disk) ==
    IF reply.kind = "raise"
    THEN [res |-> APIError(reply), cache |-> c, writes |-> 0]
    ELSE LET expires_at == (t % TicksPerSec) + timeout * TicksPerSec
             s == save_rates_to_cache(c, Upper(base_currency), reply.value,
                                      expires_at, t, disk)
         IN  IF s.raised.kind = "raise"
             THEN [res |-> APIError(s.raised), cache |-> s.cache, writes |-> 1]
             ELSE [res |-> Ok(reply.value), cache |-> s.cache, writes |-> 1]

\* get_exchange_rates after its await (lines 52-58) at clock t: the provider
\* replied `reply` (Ok(rates) or the exception), the disk behaves as `disk`.
get_exchange_rates_resume(c, base_currency, t, timeout, reply, disk) ==
    IF reply.kind = "raise"
    THEN [res |-> APIError(reply), cache |-> c, writes |-> 0]
    ELSE LET expires_at == t + timeout * TicksPerSec
             s == save_rates_to_cache(c, Upper(base_currency), reply.value,
                                      expires_at, t, disk)
         IN  IF s.raised.kind = "raise"
             THEN [res |-> APIError(s.raised), cache |-> s.cache, writes |-> 1]
             ELSE [res |-> Ok(reply.value), cache |-> s.cache, writes |-> 1]

\* SameCurrency comparing the codes as given, before upper().
SameCurrency_as_given(from_currency, to_currency) == from_currency = to_currency

\* Lines 72-75: the two codes are the same currency after upper().
SameCurrency(from_currency, to_currency) == Upper(from_currency) = Upper(to_currency)

\* Product dividing by the rate: the conversion applied in the wrong direction.
Product_inverse(amount, rate) == Mul(amount, <<rate[2], rate[1]>>)

\* Line 83: amount * rates['rates'][to_currency].
Product(amount, rate) == Mul(amount, rate)

\* convert_finish that treats a missing target as a rate of 1 instead of
\* raising.
convert_finish_lenient(amount, to_currency, rates) ==
    IF rates.kind = "raise" THEN rates
    ELSE IF to_currency \notin DOMAIN rates.value.rates THEN Ok(amount)
    ELSE Ok(Product(amount, rates.value.rates[to_currency]))

\* convert from line 78 on, once get_exchange_rates has ended with `rates`
\* (Ok(dict) or the exception, which propagates).
convert_finish(amount, to_currency, rates) ==
    IF rates.kind = "raise" THEN rates
    ELSE IF to_currency \notin DOMAIN rates.value.rates
         THEN Raise("InvalidCurrencyError",
                    <<"Currency", to_currency, "not found in rates">>)
    ELSE Ok(Product(amount, rates.value.rates[to_currency]))

\* convert_begin with the amount validated after the rates lookup instead of
\* before it.
convert_begin_lookup_first(c, amount, from_currency, to_currency, t) ==
    LET a == ToFloat(amount)
        g == get_exchange_rates_begin(c, Upper(from_currency), t)
    IN  IF a.kind = "raise"
        THEN [done |-> TRUE, res |-> Raise("ValueError", "Amount must be a number"),
              reads |-> 1, rates |-> g.res, cache |-> g.cache]
        ELSE IF SameCurrency(from_currency, to_currency)
        THEN [done |-> TRUE, res |-> Ok(a.value), reads |-> 1, rates |-> g.res,
              cache |-> g.cache]
        ELSE IF g.step = "await"
        THEN [done |-> FALSE, res |-> None, reads |-> 1, rates |-> None,
              cache |-> g.cache]
        ELSE [done |-> TRUE,
              res |-> convert_finish(a.value, Upper(to_currency), g.res),
              reads |-> 1, rates |-> g.res, cache |-> g.cache]

\* convert up to the provider await (lines 67-78) at clock t on directory c.
\* done: the call ended with res; otherwise it is suspended in the fetch.
\* reads counts the cache loads made, rates is what get_exchange_rates gave.
convert_begin(c, amount, from_currency, to_currency, t) ==
    LET a == ToFloat(amount)
    IN  IF a.kind = "raise"
        THEN [done |-> TRUE, res |-> Raise("ValueError", "Amount must be a number"),
              reads |-> 0, rates |-> None, cache |-> c]
        ELSE IF SameCurrency(from_currency, to_currency)
        THEN [done |-> TRUE, res |-> Ok(a.value), reads |-> 0, rates |-> None,
              cache |-> c]
        ELSE LET g == get_exchange_rates_begin(c, Upper(from_currency), t)
             IN  IF g.step = "await"
                 THEN [done |-> FALSE, res |-> None, reads |-> 1, rates |-> None,
                       cache |-> g.cache]
                 ELSE [done |-> TRUE,
                       res |-> convert_finish(a.value, Upper(to_currency), g.res),
                       reads |-> 1, rates |-> g.res, cache |-> g.cache]

\* get_supported_currencies_finish that adds the base currency to the keys.
get_supported_currencies_finish_with_base(rates) ==
    IF rates.kind = "raise" THEN rates
    ELSE Ok(DOMAIN rates.value.rates \cup {rates.value.base})

\* Line 87: list(rates['rates'].keys()), or the exception of line 86.
get_supported_currencies_finish(rates) ==
    IF rates.kind = "raise" THEN rates ELSE Ok(DOMAIN rates.value.rates)

(* ------------------------------ calls ---------------------------------- *)
Idle == [op |-> "idle"]

GetRatesCall(base) == [op |-> "get_exchange_rates", base |-> base]
ConvertCall(amount, from, to) ==
    [op |-> "convert", amount |-> amount, from |-> from, to |-> to]
SupportedCall == [op |-> "get_supported_currencies"]

\* The base currency whose rates a call asks get_exchange_rates for.
BaseOf(call) ==
    CASE call.op = "get_exchange_rates" -> Upper(call.base)
      [] call.op = "convert" -> Upper(call.from)
      [] call.op = "get_supported_currencies" -> "USD"

ConvertInputs ==
    { ConvertCall(StrArg(<<"a", "b", "c">>), "USD", "EUR"),
      ConvertCall(StrArg(<<>>), "usd", "usd"),
      ConvertCall(StrArg(<<" ", "2", ".", "5">>), "usd", "eur"),
      ConvertCall(FloatArg(<<10, 1>>), "USD", "GBP"),
      ConvertCall(StrArg(<<"-", "1">>), "usd", "USD"),
      ConvertCall(FloatArg(<<3, 1>>), "EUR", "eur") }

\* What the file of key k looks like to a reader at clock t.
Seen(c, k, t) ==
    CASE c[k].kind = "nofile"  -> "nofile"
      [] c[k].kind = "corrupt" -> "corrupt"
      [] OTHER -> IF t < FromIsoFormat(c[k].data.expires_at) THEN "fresh" ELSE "stale"

\* The record of the call that returned last: the call, its result, the
\* cache loads, provider fetches and cache writes it made, whether it was
\* suspended in a fetch, whether the entry of its base was there and
\* unexpired when it began, what
\* its get_exchange_rates gave, the provider reply and disk behaviour of its
\* resume, and the directory and clock of the step in which it returned.
Return(call, res, reads, fetches, writes, fresh0, rates, reply, disk) ==
    [call |-> call, res |-> res, reads |-> reads, fetches |-> fetches,
     writes |-> writes, fresh0 |-> fresh0, rates |-> rates, reply |-> reply,
     disk |-> disk, pre |-> cache, at |-> now]

Init ==
    /\ cache = [k \in CacheKeys |-> NoFile]
    /\ now = 0
    /\ cache_timeout \in CacheTimeouts
    /\ self_rates = <<>>
    /\ pending = EmptyBag
    /\ ret = [call |-> Idle]

\* A caller is free to begin a call.
CanCall == BagCardinality(pending) < Cardinality(Procs)

Suspend(call, c) ==
    /\ pending' = pending (+) SetToBag(
                     {[call |-> call, fresh0 |-> Seen(cache, BaseOf(call), now) = "fresh"]})
    /\ cache' = c
    /\ UNCHANGED ret

\* A caller awaits get_exchange_rates(base).
CallGetRates(base) ==
    /\ CanCall
    /\ LET call == GetRatesCall(base)
           g == get_exchange_rates_begin(cache, base, now)
       IN  IF g.step = "await" THEN Suspend(call, g.cache)
           ELSE /\ ret' = Return(call, g.res, 1, 0, 0,
                                 Seen(cache, BaseOf(call), now) = "fresh",
                                 g.res, None, "none")
                /\ cache' = g.cache
                /\ UNCHANGED pending
    /\ UNCHANGED <<now, cache_timeout, self_rates>>

\* A caller awaits convert(amount, from, to).
CallConvert(call) ==
    /\ CanCall
    /\ LET b == convert_begin(cache, call.amount, call.from, call.to, now)
       IN  IF ~b.done THEN Suspend(call, b.cache)
           ELSE /\ ret' = Return(call, b.res, b.reads, 0, 0,
                                 Seen(cache, BaseOf(call), now) = "fresh", b.rates,
                                 None, "none")
                /\ cache' = b.cache
                /\ UNCHANGED pending
    /\ UNCHANGED <<now, cache_timeout, self_rates>>

\* A caller awaits get_supported_currencies().
CallSupported ==
    /\ CanCall
    /\ LET g == get_exchange_rates_begin(cache, "USD", now)
       IN  IF g.step = "await" THEN Suspend(SupportedCall, g.cache)
           ELSE /\ ret' = Return(SupportedCall, get_supported_currencies_finish(g.res),
                                 1, 0, 0, Seen(cache, "USD", now) = "fresh", g.res, None,
                                 "none")
                /\ cache' = g.cache
                /\ UNCHANGED pending
    /\ UNCHANGED <<now, cache_timeout, self_rates>>

\* The rest of a suspended call once its get_exchange_rates ended with `rates`.
Continue(call, rates) ==
    CASE call.op = "get_exchange_rates" -> rates
      [] call.op = "convert" ->
           convert_finish(ToFloat(call.amount).value, Upper(call.to), rates)
      [] call.op = "get_supported_currencies" -> get_supported_currencies_finish(rates)

\* The provider's reply reaches the suspended call s, which runs to its end.
Resume(s, reply, disk) ==
    /\ BagIn(s, pending)
    /\ LET call == s.call
           g == get_exchange_rates_resume(cache, BaseOf(call), now, cache_timeout,
                                          reply, disk)
       IN  /\ cache' = g.cache
           /\ ret' = Return(call, Continue(call, g.res), 1, 1, g.writes,
                            s.fresh0, g.res, reply,
                            IF g.writes = 0 THEN "none" ELSE disk)
    /\ pending' = pending (-) SetToBag({s})
    /\ UNCHANGED <<now, cache_timeout, self_rates>>

\* The provider answers with rates.
ProviderReturns(s) ==
    \E r \in ProviderResponses(BaseOf(s.call)), disk \in DiskOutcomes :
        Resume(s, Ok(r), disk)

\* The provider call fails.
ProviderFails(s) ==
    \E e \in ProviderErrors : Resume(s, Raise("ClientError", e), "ok")

\* Time passes.
Tick ==
    /\ now < MaxTime
    /\ now' = now + 1
    /\ UNCHANGED <<cache, cache_timeout, self_rates, pending, ret>>

Next ==
    \/ \E base \in BaseInputs : CallGetRates(base)
    \/ \E call \in ConvertInputs : CallConvert(call)
    \/ CallSupported
    \/ \E s \in BagToSet(pending) : ProviderReturns(s)
    \/ \E s \in BagToSet(pending) : ProviderFails(s)
    \/ Tick

Spec == Init /\ [][Next]_vars

(* ------------------------------ claims --------------------------------- *)
\* The base currency of the call that returned last, and its key's file
\* before the step in which it returned.
RetKey == BaseOf(ret.call)
RetFile == ret.pre[RetKey]
Returned(op) == ret.call.op = op
\* The lifetime in ticks.
Lifetime == cache_timeout * TicksPerSec
\* Clock values a load may be asked at.
QueryTimes == 0..(MaxTime + 2 * TicksPerSec)
\* No I/O: no cache load, no provider fetch, no cache write, directory as before.
NoIO == ret.reads = 0 /\ ret.fetches = 0 /\ ret.writes = 0 /\ cache = ret.pre
\* The snapshot the last call's get_exchange_rates yielded: the cached entry
\* on a hit, the provider's reply on a fetch.
RetSnapshot == IF ret.fetches = 0 THEN RetFile.data ELSE ret.reply.value
\* The last convert call got past validation and the identity short-circuit
\* and obtained a snapshot.
ConvertedWith ==
    /\ Returned("convert")
    /\ ToFloat(ret.call.amount).kind = "ok"
    /\ Upper(ret.call.from) # Upper(ret.call.to)
    /\ ret.rates.kind = "ok"

\* C1 (cache freshness): the entry a call has just stored at clock `at` with
\* lifetime T is returned unchanged by load at every clock value strictly
\* before at + T and is absent at every clock value from at + T on, for every
\* spelling of the base currency.
C1_CacheFreshness ==
    (ret.call # Idle /\ ret.disk = "ok") =>
        /\ cache[RetKey].kind = "json"
        /\ \A b \in CurrencyInputs, t \in QueryTimes :
              Upper(b) = RetKey =>
                load_cached_rates(cache, b, t) =
                    IF t < ret.at + Lifetime THEN Ok(cache[RetKey].data) ELSE None

\* An entry stored a full lifetime ago: the clock stands exactly at its expiry.
C1_Witness ==
    /\ ret.call # Idle /\ ret.disk = "ok"
    /\ cache_timeout > 0
    /\ now = ret.at + Lifetime
    /\ load_cached_rates(cache, RetKey, now) = None
    /\ load_cached_rates(cache, RetKey, now - 1) = Ok(cache[RetKey].data)

\* C2 (fetch fallback): a get_exchange_rates call that begins on a miss and
\* returns rates made exactly one provider fetch and persisted the result so
\* that every load inside the lifetime window returns it; a call that begins
\* while the entry is unexpired returns the cached snapshot with no fetch.
C2_FetchFallback ==
    Returned("get_exchange_rates") =>
        /\ ret.fresh0 =>
              /\ ret.fetches = 0
              /\ RetFile.kind = "json"
              /\ ret.res = Ok(RetFile.data)
              /\ cache = ret.pre
        /\ (~ret.fresh0 /\ ret.res.kind = "ok") =>
              /\ ret.fetches = 1
              /\ ret.res = Ok(ret.reply.value)
              /\ cache[RetKey] =
                    File(CacheData(ret.reply.value, ret.at + Lifetime, ret.at))
              /\ \A t \in ret.at..(ret.at + Lifetime - 1) :
                    Seen(cache, RetKey, t) = "fresh"
        /\ ret.fetches <= 1

\* A later call inside the window of an entry that an earlier call fetched
\* into an empty cache: served from the cache.
C2_Witness ==
    /\ Returned("get_exchange_rates")
    /\ ret.fresh0 /\ ret.fetches = 0
    /\ ret.at > 0
    /\ ret.res = Ok(cache[RetKey].data)

\* C3 (identity): convert of a parsable amount between two codes equal after
\* uppercasing returns the parsed amount itself and does no cache load, no
\* cache write and no provider fetch.
C3_Identity ==
    ( /\ Returned("convert")
      /\ ToFloat(ret.call.amount).kind = "ok"
      /\ Upper(ret.call.from) = Upper(ret.call.to) ) =>
        /\ ret.res = Ok(ToFloat(ret.call.amount).value)
        /\ NoIO

\* convert("-1", "usd", "USD") returned -1 while the usd entry was expired.
C3_Witness ==
    /\ Returned("convert")
    /\ ret.call.from # ret.call.to
    /\ Upper(ret.call.from) = Upper(ret.call.to)
    /\ ret.res = Ok(<<-1, 1>>)
    /\ Seen(ret.pre, RetKey, ret.at) = "stale"

\* C4 (invalid amount): convert of an amount float() rejects raises the
\* ValueError of line 70, which is neither the unknown-currency nor the
\* rate-fetch error, and does no cache load, cache write or provider fetch.
C4_InvalidAmount ==
    (Returned("convert") /\ ToFloat(ret.call.amount).kind = "raise") =>
        /\ ret.res = Raise("ValueError", "Amount must be a number")
        /\ ret.res.exc \notin {"InvalidCurrencyError", "APIError"}
        /\ NoIO

\* convert("abc", "USD", "EUR") failed although a fresh USD entry was there.
C4_Witness ==
    /\ Returned("convert")
    /\ ret.call.amount = StrArg(<<"a", "b", "c">>)
    /\ Upper(ret.call.from) # Upper(ret.call.to)
    /\ ret.res.kind = "raise" /\ ret.res.exc = "ValueError"
    /\ Seen(ret.pre, RetKey, ret.at) = "fresh"

\* C5 (unknown currency): when the snapshot convert obtained has no rate for
\* the uppercased target, convert raises InvalidCurrencyError naming that
\* code and returns no number.
C5_UnknownCurrency ==
    (ConvertedWith /\ Upper(ret.call.to) \notin DOMAIN RetSnapshot.rates) =>
        /\ ret.rates.value = RetSnapshot
        /\ ret.res = Raise("InvalidCurrencyError",
                           <<"Currency", Upper(ret.call.to), "not found in rates">>)

\* convert(10, "USD", "GBP") failed on a cached USD snapshot without GBP.
C5_Witness ==
    /\ ConvertedWith
    /\ ret.fetches = 0
    /\ ret.call.to = "GBP"
    /\ "GBP" \notin DOMAIN RetFile.data.rates
    /\ ret.res.kind = "raise" /\ ret.res.exc = "InvalidCurrencyError"

\* C6 (conversion result): when the snapshot convert obtained, from the cache
\* or from a fetch, has a rate for the uppercased target, convert returns the
\* parsed amount times that rate, unrounded.
C6_ConversionResult ==
    (ConvertedWith /\ Upper(ret.call.to) \in DOMAIN RetSnapshot.rates) =>
        /\ ret.rates.value = RetSnapshot
        /\ ret.res = Ok(Mul(ToFloat(ret.call.amount).value,
                            RetSnapshot.rates[Upper(ret.call.to)]))

\* convert(" 2.5", "usd", "eur") on a cached rate of 0.92 returned 2.3.
C6_Witness ==
    /\ ConvertedWith
    /\ ret.fetches = 0
    /\ ret.call.amount = StrArg(<<" ", "2", ".", "5">>)
    /\ RetFile.data.rates["EUR"] = <<23, 25>>
    /\ ret.res = Ok(<<23, 10>>)

\* C7 (cache-read failure is a miss): a call whose load meets an entry that
\* cannot be read or parsed goes on to a provider fetch, and the read failure
\* is not what the caller gets.
C7_ReadFailureIsMiss ==
    (ret.call # Idle /\ ret.reads = 1 /\ RetFile.kind = "corrupt") =>
        /\ ret.fetches = 1
        /\ ~(ret.res.kind = "raise" /\ ret.res.exc = "JSONDecodeError")

\* C8 (cache-write failure is non-fatal): when the provider fetch succeeds
\* and the store fails, get_exchange_rates still yields the fetched snapshot.
C8_WriteFailureNonFatal ==
    ( /\ ret.call # Idle
      /\ ret.reply.kind = "ok"
      /\ ret.disk \in {"open_failed", "write_failed"} ) =>
        ret.rates = Ok(ret.reply.value)

\* C9 (rate-fetch failure, no retry): when the provider fetch fails, the call
\* ends with the one APIError carrying the cause's description, and a call
\* never invokes the provider more than once.
C9_FetchFailure ==
    ret.call # Idle =>
        /\ ret.fetches <= 1
        /\ ret.reply.kind = "raise" =>
              /\ ret.fetches = 1
              /\ ret.rates =
                    Raise("APIError", <<"Could not fetch exchange rates", ret.reply.msg>>)
              /\ ret.res = ret.rates
              /\ ret.writes = 0

\* A get_exchange_rates call on an expired entry ended with the APIError.
C9_Witness ==
    /\ Returned("get_exchange_rates")
    /\ ret.reply.kind = "raise"
    /\ ret.res.kind = "raise" /\ ret.res.exc = "APIError"
    /\ Seen(ret.pre, RetKey, ret.at) = "stale"

\* C10 (supported currencies): get_supported_currencies asks for the rates
\* of USD and returns exactly the keys of that snapshot's rates; when the USD
\* rates cannot be obtained it fails with the failure of get_exchange_rates.
C10_SupportedCurrencies ==
    Returned("get_supported_currencies") =>
        /\ RetKey = "USD"
        /\ (ret.fetches = 1 /\ ret.reply.kind = "ok") =>
              ret.reply.value \in ProviderResponses("USD")
        /\ ret.rates.kind = "ok" =>
              /\ ret.rates.value = RetSnapshot
              /\ ret.res = Ok(DOMAIN RetSnapshot.rates)
        /\ ret.rates.kind = "raise" => ret.res = ret.rates

\* The call returned the two keys of a fetched USD snapshot.
C10_Witness ==
    /\ Returned("get_supported_currencies")
    /\ ret.fetches = 1
    /\ ret.res = Ok({"EUR", "GBP"})

\* The expiry instant an entry's expires_at text denotes.
ExpiresAt(f) == FromIsoFormat(f.data.expires_at)

\* C11 (round trip): after a store of snapshot s with a positive lifetime, a
\* load of s.base at the same instant returns a snapshot equal to s in base,
\* rates and (where s has one) date.
C11_RoundTrip ==
    (ret.call # Idle /\ ret.disk = "ok" /\ cache_timeout > 0) =>
        LET s == ret.reply.value
            r == load_cached_rates(cache, s.base, ret.at)
        IN  /\ r.kind = "ok"
            /\ r.value.base = s.base
            /\ r.value.rates = s.rates
            /\ "date" \in DOMAIN s => r.value.date = s.date

\* C12 (store before return): a call that fetched and got rates back from
\* get_exchange_rates attempted the store in that same call; no fetched
\* snapshot is returned without it.
C12_StoreBeforeReturn ==
    (ret.call # Idle /\ ret.fetches = 1 /\ ret.rates.kind = "ok") =>
        /\ ret.writes = 1
        /\ ret.disk = "ok"
        /\ ret.rates.value = ret.reply.value
        /\ cache[RetKey] = File(CacheData(ret.reply.value, ret.at + Lifetime, ret.at))

\* A convert call that went through fetch and store and returned a number.
C12_Witness ==
    /\ Returned("convert")
    /\ ret.fetches = 1 /\ ret.writes = 1
    /\ ret.res.kind = "ok"
    /\ RetFile.kind = "nofile"
    /\ cache[RetKey].kind = "json"

\* C13 (fetch failure does not poison the cache): when the provider fetch of
\* a call fails, the directory after the call is the directory before its
\* failing step, for every base.
C13_FailureKeepsCache ==
    (ret.call # Idle /\ ret.reply.kind = "raise") =>
        /\ cache = ret.pre
        /\ ret.writes = 0

\* A fetch failed on an expired entry, which is still there; another base has
\* no entry.
C13_Witness ==
    /\ ret.call # Idle /\ ret.reply.kind = "raise"
    /\ Seen(ret.pre, RetKey, ret.at) = "stale"
    /\ cache[RetKey] = RetFile
    /\ \E k \in CacheKeys : cache[k] = NoFile

\* C14 (store is all-or-nothing): no file of the directory is ever a partial
\* or corrupt record.
C14_NoPartialEntry ==
    \A k \in CacheKeys : cache[k].kind # "corrupt"

\* C15 (concurrent misses, last writer wins): every suspended call detected a
\* miss, each one fetches and stores on its own, and after a store the entry
\* of the base is exactly the snapshot of that store, whatever an overlapping
\* call had written there; no other entry is touched.
C15_LastWriterWins ==
    /\ \A s \in BagToSet(pending) : ~s.fresh0
    /\ (ret.call # Idle /\ ret.disk = "ok") =>
          /\ ~ret.fresh0 /\ ret.fetches = 1 /\ ret.writes = 1
          /\ cache[RetKey] = File(CacheData(ret.reply.value, ret.at + Lifetime, ret.at))
          /\ \A k \in CacheKeys \ {RetKey} : cache[k] = ret.pre[k]

\* A call that began on a miss stored over an unexpired entry, which an
\* overlapping call had written while this one was suspended, and replaced it.
C15_Witness ==
    /\ ret.call # Idle /\ ret.disk = "ok"
    /\ ~ret.fresh0
    /\ Seen(ret.pre, RetKey, ret.at) = "fresh"
    /\ RetFile.data.rates # ret.reply.value.rates
    /\ cache[RetKey].data.rates = ret.reply.value.rates
    /\ pending = EmptyBag

\* C16 as claimed: every stored entry expires exactly one lifetime after its
\* creation and strictly later than its creation, whatever the lifetime.
C16_ExpiryStrictlyLater ==
    (ret.call # Idle /\ ret.disk = "ok") =>
        /\ ExpiresAt(cache[RetKey]) = ret.at + Lifetime
        /\ ExpiresAt(cache[RetKey]) > ret.at

\* C16 (expiry invariant), amended: every stored entry expires exactly one
\* lifetime after its creation; that is strictly later than its creation
\* when the configured lifetime is positive, and not later otherwise.
C16_Expiry ==
    (ret.call # Idle /\ ret.disk = "ok") =>
        /\ ExpiresAt(cache[RetKey]) = ret.at + Lifetime
        /\ cache_timeout > 0 => ExpiresAt(cache[RetKey]) > ret.at
        /\ cache_timeout <= 0 => ExpiresAt(cache[RetKey]) <= ret.at

\* An entry created at a clock value with a fraction, with a positive lifetime.
C16_Witness ==
    /\ ret.call # Idle /\ ret.disk = "ok"
    /\ cache_timeout > 0
    /\ ret.at % TicksPerSec # 0
    /\ ExpiresAt(cache[RetKey]) = ret.at + Lifetime

\* C17 (keyed by snapshot base): every entry of the directory has the base
\* of its key, and a store changes the entry of its key only.
C17_KeyedByBase ==
    /\ \A k \in CacheKeys : cache[k].kind = "json" => cache[k].data.base = k
    /\ (ret.call # Idle /\ ret.writes = 1) =>
          \A k \in CacheKeys \ {RetKey} : cache[k] = ret.pre[k]

\* C18 (load is read-only): a step in which no suspended call resumes, so
\* every step that only loads, leaves the directory as it is; an entry, stale
\* or not, changes only in the resume of a call for its own base whose fetch
\* succeeded and which therefore wrote.
C18_LoadReadOnly ==
    [][ /\ BagCardinality(pending') >= BagCardinality(pending) => cache' = cache
        /\ \A k \in CacheKeys :
              (cache[k].kind = "json" /\ cache'[k] # cache[k]) =>
                  /\ BagCardinality(pending') < BagCardinality(pending)
                  /\ ret'.reply.kind = "ok" /\ ret'.writes = 1
                  /\ BaseOf(ret'.call) = k ]_vars

\* A call is suspended in its fetch after its load met no unexpired entry,
\* and the expired entry of its base is still in the directory.
C18_Witness ==
    \E s \in BagToSet(pending) :
        /\ ~s.fresh0
        /\ cache[BaseOf(s.call)].kind = "json"
        /\ Seen(cache, BaseOf(s.call), now) = "stale"
        /\ ExpiresAt(cache[BaseOf(s.call)]) < now

\* The shape a snapshot is claimed to have: uppercase keys, base not a key.
ShapeAsClaimed(snapshot) ==
    /\ \A c \in DOMAIN snapshot.rates : Upper(c) = c
    /\ snapshot.base \notin DOMAIN snapshot.rates

\* C19 as claimed: every snapshot returned or persisted has uppercase keys
\* and does not list its own base among its rates.
C19_ShapeAsClaimed ==
    /\ \A k \in CacheKeys : cache[k].kind = "json" => ShapeAsClaimed(cache[k].data)
    /\ (ret.call # Idle /\ ret.rates.kind = "ok") => ShapeAsClaimed(ret.rates.value)

\* C19 (snapshot shape), amended: the rates of every snapshot returned or
\* persisted are the rates mapping of a provider response, unchanged: its keys
\* are uppercase as the provider's are, and the base is a key of its own
\* rates exactly when the provider listed it.
C19_ShapeOfProvider ==
    /\ \A k \in CacheKeys : cache[k].kind = "json" =>
          /\ \E b \in CacheKeys : \E r \in ProviderResponses(b) :
                 cache[k].data.base = r.base /\ cache[k].data.rates = r.rates
          /\ \A c \in DOMAIN cache[k].data.rates : Upper(c) = c
    /\ (ret.call # Idle /\ ret.rates.kind = "ok") =>
          /\ \E b \in CacheKeys : \E r \in ProviderResponses(b) :
                 ret.rates.value.base = r.base /\ ret.rates.value.rates = r.rates
          /\ \A c \in DOMAIN ret.rates.value.rates : Upper(c) = c
    /\ (ret.call # Idle /\ ret.disk = "ok") =>
          /\ cache[RetKey].data.rates = ret.reply.value.rates
          /\ ret.rates.value.rates = ret.reply.value.rates

\* A response that lists its own base was fetched, stored and returned.
C19_Witness ==
    /\ ret.call # Idle /\ ret.fetches = 1 /\ ret.disk = "ok"
    /\ ret.reply.value.base \in DOMAIN ret.reply.value.rates
    /\ cache[RetKey].data.base \in DOMAIN cache[RetKey].data.rates
    /\ ret.rates.value = ret.reply.value

\* C20 (expiry never moves backwards): no entry expires later than one
\* lifetime from now, and a store puts the expiry of its entry at one
\* lifetime from now, which is not earlier than the expiry of the entry it
\* replaces, whichever overlapping call wrote that one.
C20_ExpiryMonotone ==
    /\ \A k \in CacheKeys :
          cache[k].kind = "json" => ExpiresAt(cache[k]) <= now + Lifetime
    /\ (ret.call # Idle /\ ret.disk = "ok") =>
          /\ ExpiresAt(cache[RetKey]) = ret.at + Lifetime
          /\ RetFile.kind = "json" => ExpiresAt(cache[RetKey]) >= ExpiresAt(RetFile)

\* A call that was suspended while an overlapping call stored an entry has
\* replaced that still unexpired entry by one that expires later.
C20_Witness ==
    /\ ret.call # Idle /\ ret.disk = "ok"
    /\ ~ret.fresh0
    /\ RetFile.kind = "json"
    /\ Seen(ret.pre, RetKey, ret.at) = "fresh"
    /\ ExpiresAt(cache[RetKey]) > ExpiresAt(RetFile)

====
